---- MODULE Spec2Model ----
(***************************************************************************)
(* A model of the Ivaldi telemetry client (src/src/ivaldi):                *)
(*   - utils.run_periodic, the periodic loop with its cancellation flag,   *)
(*   - devices.counter.CountDevice, the edge counter,                      *)
(*   - link.send_data_packet / link.recieve_data_packet, the packet codec  *)
(*     over the serial link.                                               *)
(* Time is counted in units of 10 ms (0.01 s), the smallest duration the   *)
(* program names (SLEEP_TIME_MINIMUM).                                     *)
(***************************************************************************)
EXTENDS Integers, Sequences, FiniteSets, TLC

VARIABLES
    now,            \* time.monotonic(), in units of 10 ms
    \* ---- utils.run_periodic
    kind,           \* which loop runs: "monitor", "send" or "receive"
    period_s,       \* the period_s keyword of _run_periodic
    frequency,      \* the frequency the send loop was started with, in Hz
                    \* (-1: the loop takes none)
    pc,             \* position of _run_periodic
    wakeup_time,    \* local wakeup_time
    until,          \* end of the work call or of the time.sleep in progress
    EXIT_EVENT,     \* utils.EXIT_EVENT.is_set()
    n_calls,        \* invocations of func begun so far
    raised,         \* exception that left _run_periodic, or "none"
    last_sleep,     \* argument of the last time.sleep call, -1 before the first
    cancel,         \* history: where and when the flag was first set
    tick,           \* history: the course of the latest invocation of func
                    \* and of the sleeps that followed it
    \* ---- devices.counter.CountDevice
    conversion_factor,  \* self.conversion_factor, the fraction num / den
    count,          \* self.count
    count_times,    \* self.count_times
    start_time,     \* self.start_time
    cb,             \* the _count callback thread: its position and its
                    \* local copy of count
    observed,       \* history: what the last reader call saw
    hist,           \* history: what has been done to the device so far
    \* ---- link
    sent,           \* history: records passed to struct.pack, in order
    line,           \* bytes written to the port, not yet at the receiver
    rx,             \* bytes waiting in the receiver's input buffer
    rx_result,      \* outcome of the last recieve_data_packet call
    out_file,       \* rows written to the receiver's output file
    \* ---- output.write_line_csv
    csv_file,       \* the lines of the destination, each a tuple of cells
    csv_calls       \* history: the lines the destination held when it was
                    \* opened, and the data of each call so far

schedVars == <<kind, period_s, frequency, pc, wakeup_time, until, EXIT_EVENT, n_calls,
               raised, last_sleep, cancel, tick>>
counterVars == <<conversion_factor, count, count_times, start_time, cb,
                 observed, hist>>
linkVars == <<sent, line, rx, rx_result, out_file>>
outputVars == <<csv_file, csv_calls>>
vars == <<now, schedVars, counterVars, linkVars, outputVars>>

(***************************************************************************)
(* Numbers.  A Python float is [k, s, m, e]: kind "fin" with the value     *)
(* (-1)^s * m * 2^e (m odd, or m = 0 and e = 0), or kind "inf" / "nan".    *)
(* A Python int is [hi, lo], the value hi * 65536 + lo with lo < 65536, so *)
(* that all 32 bits of an unsigned field are kept.                         *)
(***************************************************************************)
RECURSIVE Pow2(_)
Pow2(n) == IF n <= 0 THEN 1 ELSE 2 * Pow2(n - 1)

RECURSIVE BitLen(_)
BitLen(m) == IF m = 0 THEN 0 ELSE 1 + BitLen(m \div 2)

RECURSIVE Fin(_, _, _)
Fin(s, m, e) ==
    IF m = 0 THEN [k |-> "fin", s |-> s, m |-> 0, e |-> 0]
    ELSE IF m % 2 = 0 THEN Fin(s, m \div 2, e + 1)
    ELSE [k |-> "fin", s |-> s, m |-> m, e |-> e]

Inf(s) == [k |-> "inf", s |-> s, m |-> 0, e |-> 0]
NaN == [k |-> "nan", s |-> 0, m |-> 0, e |-> 0]
PyInt(n) == [hi |-> n \div 65536, lo |-> n % 65536]

\* Python's == on two floats: nan equals nothing, 0.0 == -0.0.
PyFloatEq(a, b) ==
    /\ a.k # "nan"
    /\ b.k # "nan"
    /\ \/ a = b
       \/ a.k = "fin" /\ b.k = "fin" /\ a.m = 0 /\ b.m = 0

\* m / 2^sh rounded to the nearest integer, ties to even (sh >= 1).
RoundShift(m, sh) ==
    IF sh > BitLen(m) + 1 THEN 0
    ELSE LET q == m \div Pow2(sh)
             r == m % Pow2(sh)
             half == Pow2(sh - 1)
         IN  IF r > half \/ (r = half /\ q % 2 = 1) THEN q + 1 ELSE q

(***************************************************************************)
(* struct.pack / struct.unpack of one field of DATA_FORMAT = "!7fI5f".     *)
(* FloatBits is the C cast (float)x of PyFloat_Pack4: the biased exponent  *)
(* E and the 23-bit fraction M of the nearest binary32, E = 255 with       *)
(* M = 0 when the cast overflows to infinity.                              *)
(***************************************************************************)
FloatBits(v) ==
    IF v.k = "inf" THEN [E |-> 255, M |-> 0]
    ELSE IF v.k = "nan" THEN [E |-> 255, M |-> 4194304]
    ELSE IF v.m = 0 THEN [E |-> 0, M |-> 0]
    ELSE LET L == BitLen(v.m)
             q1 == IF L <= 24 THEN v.m * Pow2(24 - L)
                   ELSE RoundShift(v.m, L - 24)
             carry == q1 = 16777216
             q == IF carry THEN 8388608 ELSE q1
             x == v.e + L - 1 + (IF carry THEN 1 ELSE 0)
         IN  IF x > 127 THEN [E |-> 255, M |-> 0]
             ELSE IF x >= -126 THEN [E |-> x + 127, M |-> q - 8388608]
             ELSE LET d == IF v.e + 149 >= 0 THEN v.m * Pow2(v.e + 149)
                           ELSE RoundShift(v.m, 0 - (v.e + 149))
                  IN  IF d = 8388608 THEN [E |-> 1, M |-> 0]
                      ELSE [E |-> 0, M |-> d]

\* The four big-endian bytes of a binary32 with sign s and bits b.
FloatBytes(s, b) ==
    << s * 128 + b.E \div 2,
       (b.E % 2) * 128 + b.M \div 65536,
       (b.M \div 256) % 256,
       b.M % 256 >>

\* struct.pack("!f", v): the bytes, or <<>> for OverflowError
\* ("float too large to pack with f format").
PackF(v) ==
    LET b == FloatBits(v)
    IN  IF v.k = "fin" /\ b.E = 255 THEN <<>> ELSE FloatBytes(v.s, b)

\* struct.unpack("!f", b): the binary32 widened (exactly) to a Python float.
UnpackF(b) ==
    LET s == b[1] \div 128
        E == (b[1] % 128) * 2 + b[2] \div 128
        M == (b[2] % 128) * 65536 + b[3] * 256 + b[4]
    IN  IF E = 255 THEN (IF M = 0 THEN Inf(s) ELSE NaN)
        ELSE IF E = 0 THEN Fin(s, M, 0 - 149)
        ELSE Fin(s, 8388608 + M, E - 150)

\* struct.pack("!I", n): the bytes, or <<>> for struct.error (n out of range).
PackI(n) ==
    IF n.hi < 0 \/ n.hi > 65535 THEN <<>>
    ELSE << n.hi \div 256, n.hi % 256, n.lo \div 256, n.lo % 256 >>

\* A byte-order slip: the field read little-endian.
UnpackI_LittleEndian(b) == [hi |-> b[4] * 256 + b[3], lo |-> b[2] * 256 + b[1]]

UnpackI(b) == [hi |-> b[1] * 256 + b[2], lo |-> b[3] * 256 + b[4]]

(***************************************************************************)
(* The wire schema and the frame codec (link.py).                          *)
(***************************************************************************)
\* DATA_FORMAT = "!7fI5f": network byte order, no padding.
DATA_FORMAT ==
    <<"f", "f", "f", "f", "f", "f", "f", "I", "f", "f", "f", "f", "f">>

\* struct.calcsize(DATA_FORMAT)
CalcSize == 4 * Len(DATA_FORMAT)

PackField(t, v) == IF t = "I" THEN PackI(v) ELSE PackF(v)
UnpackField(t, b) == IF t = "I" THEN UnpackI(b) ELSE UnpackF(b)

RECURSIVE Concat(_)
Concat(ss) == IF ss = <<>> THEN <<>> ELSE Head(ss) \o Concat(Tail(ss))

\* struct.pack(DATA_FORMAT, *r): err is "none" and bytes the frame, or err
\* is the exception raised (wrong number of items, a value out of range).
StructPack(r) ==
    IF Len(r) # Len(DATA_FORMAT) THEN [err |-> "struct.error", bytes |-> <<>>]
    ELSE LET fs == [i \in 1..Len(r) |-> PackField(DATA_FORMAT[i], r[i])]
         IN  IF \E i \in 1..Len(r) : fs[i] = <<>>
             THEN [err |-> IF \E i \in 1..Len(r) :
                                 fs[i] = <<>> /\ DATA_FORMAT[i] = "I"
                                 /\ \A j \in 1..(i - 1) : fs[j] # <<>>
                           THEN "struct.error" ELSE "OverflowError",
                   bytes |-> <<>>]
             ELSE [err |-> "none", bytes |-> Concat(fs)]

\* A missing size check: a short buffer is padded with zero bytes.
StructUnpack_NoSizeCheck(buf) ==
    LET padded == [i \in 1..CalcSize |-> IF i <= Len(buf) THEN buf[i] ELSE 0]
    IN  [err |-> "none",
         data |-> [i \in 1..Len(DATA_FORMAT) |->
                     UnpackField(DATA_FORMAT[i],
                                 SubSeq(padded, 4 * i - 3, 4 * i))]]

\* struct.unpack(DATA_FORMAT, buf): err "struct.error" unless the buffer has
\* exactly calcsize bytes; else the tuple of the fields, in order.
StructUnpack(buf) ==
    IF Len(buf) # CalcSize THEN [err |-> "struct.error", data |-> <<>>]
    ELSE [err |-> "none",
          data |-> [i \in 1..Len(DATA_FORMAT) |->
                      UnpackField(DATA_FORMAT[i],
                                  SubSeq(buf, 4 * i - 3, 4 * i))]]

\* monitor.VARIABLES: the names of the observations, in display order.
VARIABLES_keys ==
    <<"time_elapsed_s", "temperature_bmp280_C", "pressure_hPa", "altitude_m",
      "temperature_sht31d_C", "relative_humidity", "wind_gust_m_s_3s",
      "wind_sustained_m_s_10min", "wind_direction_deg_n", "rain_mm",
      "rain_rate_mm_h", "soil_temperature_C", "soil_moisture_raw">>

\* The module-level names monitor.py defines.
MonitorNames ==
    {"PERIOD_S_DEFAULT", "VARIABLES", "pretty_print_data", "get_sensor_data",
     "get_monitoring_data", "setup_sensors", "start_monitoring"}

\* getattr(ivaldi.monitor, name): err "AttributeError" for a name the
\* module does not define.
MonitorGetattr(name) ==
    IF name \notin MonitorNames THEN [err |-> "AttributeError", val |-> <<>>]
    ELSE [err |-> "none",
          val |-> IF name = "VARIABLES" THEN VARIABLES_keys ELSE <<>>]

\* data_to_pack of send_data_packet: the quantity packed at each position,
\* under the name monitor.VARIABLES gives that quantity where it has one.
DataToPack ==
    <<"time_elapsed_s", "rain_mm", "rain_rate_mm_h",
      "windspeed.output_value_average()",
      "windspeed.output_value_average(period_s=60)",
      "wind_direction_deg_n", "soil_temperature_C", "soil_moisture_raw",
      "temperature_bmp280_C", "pressure_hPa", "altitude_m",
      "temperature_sht31d_C", "relative_humidity">>

NoResult ==
    [read |-> <<>>, unpacked |-> <<>>, names |-> <<>>, ret |-> "none",
     raised |-> "none", rows |-> <<>>]

\* recieve_data_packet on the bytes serial_port.read returned:
\*   read      the bytes read,
\*   unpacked  the tuple handed to pretty_print_data (<<>> if none),
\*   names     the keys of sensor_data_dict (<<>> if it was not built),
\*   ret       "None" or "dict", the value returned ("none": nothing returned),
\*   raised    the exception that left the function, or "none",
\*   rows      the rows written to output_file.
RecieveOutcome(recieved_data, has_output_file) ==
    IF recieved_data = <<>>
    THEN [NoResult EXCEPT !.ret = "None"]
    ELSE LET u == StructUnpack(recieved_data)
             n == MonitorGetattr("VARIABLE_NAMES")
         IN  IF u.err # "none"
             THEN [NoResult EXCEPT !.read = recieved_data, !.ret = "None"]
             ELSE IF n.err # "none"
             THEN [NoResult EXCEPT !.read = recieved_data,
                                   !.unpacked = u.data, !.raised = n.err]
             ELSE [read |-> recieved_data, unpacked |-> u.data,
                   names |-> SubSeq(n.val, 1, Len(u.data)), ret |-> "dict",
                   raised |-> "none",
                   rows |-> IF has_output_file THEN <<u.data>> ELSE <<>>]

(***************************************************************************)
(* The serial link: send_data_packet writes frames, the line carries the   *)
(* bytes to the receiver's input buffer, recieve_data_packet reads them.   *)
(***************************************************************************)
MaxFrames == 2

\* Records the sender may pack.  RecA and RecC hold binary32 values only;
\* RecB holds doubles with more than 24 significant bits.
RecA ==
    << Fin(0, 25, 0 - 1), Fin(0, 1, 0), Fin(0, 0, 0), Fin(0, 1, 0 - 1),
       Fin(0, 1, 0 - 2), Fin(0, 180, 0), Fin(1, 11, 0 - 1), PyInt(12345),
       Fin(0, 85, 0 - 2), Fin(0, 4053, 0 - 2), Fin(0, 50, 0),
       Fin(0, 43, 0 - 1), Fin(0, 44, 0) >>
RecB ==
    << Fin(0, 16777217, 0), Fin(0, 429496729, 0 - 31), Fin(0, 720, 0),
       Fin(0, 3, 0), Fin(0, 3, 0), Fin(0, 90, 0), Fin(0, 16777219, 0 - 20),
       PyInt(0), Fin(0, 33554431, 0 - 20), Fin(0, 1013, 0), Fin(0, 50, 0),
       Fin(0, 21, 0), Fin(0, 44, 0) >>
RecC ==
    << Fin(0, 16777215, 0), Fin(0, 13421773, 0 - 26), Fin(0, 0, 0),
       Fin(0, 0, 0), Fin(0, 0, 0), Fin(0, 0, 0), Fin(1, 0, 0), PyInt(70000),
       Fin(1, 5, 0), Fin(0, 1, 10), Fin(1, 3, 0), Fin(0, 1, 0 - 149),
       Fin(0, 100, 0) >>
Records == {RecA, RecB, RecC}

\* Sizes of the byte groups the line hands over at once.
DeliverChunks == {18, CalcSize}

NoTick ==
    [n |-> 0, start |-> 0, end |-> 0, read |-> <<>>, ret |-> "none",
     err |-> "none", overrun |-> FALSE, sleeps |-> 0, within |-> TRUE,
     quick |-> TRUE]

SchedIdle ==
    /\ kind = "none" /\ period_s = 0 /\ frequency = 0 - 1
    /\ pc = "idle" /\ wakeup_time = 0
    /\ until = 0 /\ EXIT_EVENT = FALSE /\ n_calls = 0 /\ raised = "none"
    /\ last_sleep = -1
    /\ cancel = [set |-> FALSE, pc |-> "none", time |-> 0, calls |-> 0]
    /\ tick = NoTick

CallbackIdle == [pc |-> "idle", tmp |-> 0]
NothingObserved ==
    [by |-> "none", value |-> 0, err |-> "none", inc |-> 0, app |-> 0]
NothingDone ==
    [inc |-> 0, app |-> 0, reset_count |-> FALSE, reset_time |-> FALSE,
     assigned |-> FALSE]

\* CountDevice.__init__, but for the conversion factor.
CounterNew ==
    /\ count = 0 /\ count_times = <<>> /\ start_time = 0
    /\ cb = CallbackIdle /\ observed = NothingObserved /\ hist = NothingDone

CounterIdle == conversion_factor = [num |-> 1, den |-> 1] /\ CounterNew

LinkIdle ==
    /\ sent = <<>> /\ line = <<>> /\ rx = <<>> /\ rx_result = NoResult
    /\ out_file = <<>>

OutputIdle == csv_file = <<>> /\ csv_calls = [initial |-> <<>>, data |-> <<>>]

InitLink == now = 0 /\ SchedIdle /\ CounterIdle /\ LinkIdle /\ OutputIdle

\* send_data_packet: pack the record and write the frame to the port.
SendDataPacket(r) ==
    /\ Len(sent) < MaxFrames
    /\ LET p == StructPack(r)
       IN  /\ p.err = "none"
           /\ line' = line \o p.bytes
    /\ sent' = Append(sent, r)
    /\ UNCHANGED <<rx, rx_result, out_file>>

\* The line delivers its next k bytes to the receiver's input buffer.
Deliver(k) ==
    /\ k <= Len(line)
    /\ rx' = rx \o SubSeq(line, 1, k)
    /\ line' = SubSeq(line, k + 1, Len(line))
    /\ UNCHANGED <<sent, rx_result, out_file>>

\* serial_port.read(size): up to size bytes; fewer (or none) when the
\* timeout ends the read first.
SerialRead(size) == SubSeq(rx, 1, IF Len(rx) < size THEN Len(rx) ELSE size)

\* recieve_data_packet(serial_port, output_file, log)
RecieveDataPacket(has_output_file) ==
    LET recieved_data == SerialRead(CalcSize)
        res == RecieveOutcome(recieved_data, has_output_file)
    IN  /\ rx' = SubSeq(rx, Len(recieved_data) + 1, Len(rx))
        /\ rx_result' = res
        /\ out_file' = out_file \o res.rows
        /\ UNCHANGED <<sent, line>>

linkRest == <<now, schedVars, counterVars, outputVars>>

NextLink ==
    \/ \E r \in Records : SendDataPacket(r) /\ UNCHANGED linkRest
    \/ \E k \in DeliverChunks : Deliver(k) /\ UNCHANGED linkRest
    \/ \E f \in BOOLEAN : RecieveDataPacket(f) /\ UNCHANGED linkRest

SpecLink == InitLink /\ [][NextLink]_vars

(***************************************************************************)
(* utils.run_periodic.  One action per step of _run_periodic; the signal   *)
(* handler runs between any two steps and during the work call and the     *)
(* sleeps.  Only the work call and time.sleep take time.                   *)
(***************************************************************************)
PERIOD_S_DEFAULT == 100
FREQUENCY_SEND == 10
SLEEP_TICK_S == 50
SLEEP_TIME_MINIMUM == 1

MaxTime == 230
MaxCalls == 3

\* Values of the period_s keyword the monitor loop is started with.
Periods == {0 - 5, 0, 70, PERIOD_S_DEFAULT}
\* Values of the frequency argument of send_monitoring_data, in Hz.
Frequencies == {0, 1, FREQUENCY_SEND}
\* Durations of one call of the work function.
WorkDurations == {0, 40, 120}

Min(a, b) == IF a < b THEN a ELSE b
Max(a, b) == IF a > b THEN a ELSE b

\* The keywords each loop hands to run_periodic's wrapper besides period_s,
\* and the parameters its work function accepts.
LoopKwargs(k) ==
    CASE k = "monitor" ->
           {"raingauge_obj", "windspeed_obj", "winddir_obj",
            "soiltemperature_obj", "soilmoisture_obj", "pressure_obj",
            "humidity_obj", "log", "output_file"}
      [] k = "send" ->
           {"raingauge_obj", "windspeed_obj", "winddir_obj",
            "soiltemperature_obj", "soilmoisture_obj", "pressure_obj",
            "humidity_obj", "serial_port", "frequency"}
      [] k = "receive" -> {"serial_port", "output_file", "log"}

FuncParams(k) ==
    CASE k = "monitor" ->
           {"output_file", "log", "raingauge_obj", "windspeed_obj",
            "winddir_obj", "soiltemperature_obj", "soilmoisture_obj",
            "pressure_obj", "humidity_obj"}
      [] k = "send" ->
           {"raingauge_obj", "windspeed_obj", "winddir_obj",
            "soiltemperature_obj", "soilmoisture_obj", "pressure_obj",
            "humidity_obj", "serial_port"}
      [] k = "receive" -> {"serial_port", "output_file", "log"}

\* func(*args, **kwargs): Python raises TypeError for a keyword the function
\* does not accept, before the function body runs.
CallError(k) ==
    IF LoopKwargs(k) \subseteq FuncParams(k) THEN "none" ELSE "TypeError"

\* What serial_port.read may return to the receive loop's work function:
\* nothing (a timeout), part of a frame, a whole frame.
SampleReads ==
    {<<>>, SubSeq(StructPack(RecA).bytes, 1, 20), StructPack(RecA).bytes}

\* The exception one completed call of the work function ends in ("none":
\* it returned).  The monitor and send work functions read the sensor
\* collaborators and print, format and write; the receive work function is
\* recieve_data_packet.
WorkErrors(k) ==
    IF k = "receive"
    THEN {RecieveOutcome(d, f).raised : d \in SampleReads, f \in BOOLEAN}
    ELSE {"none"}

\* What one invocation of func read, returned and raised.  Only the receive
\* loop's func has outcomes that differ from tick to tick.
WorkOutcomes(k) ==
    IF k = "receive"
    THEN {[read |-> d, ret |-> RecieveOutcome(d, f).ret,
           err |-> RecieveOutcome(d, f).raised] :
              d \in SampleReads, f \in BOOLEAN}
    ELSE {[read |-> <<>>, ret |-> "None", err |-> e] : e \in WorkErrors(k)}

\* An exception of func that the loop would catch and drop.
Propagates_Swallowed(err) == FALSE

\* Line 46 stands in no try block: every exception of func leaves the loop.
Propagates(err) == err # "none"

\* The deadline taken from the start of the program, not of the tick.
Deadline_FromZero(t, p) == p

\* Line 44: wakeup_time = time.monotonic() + period_s
Deadline(t, p) == t + p

\* An overrun tick made to wait one whole sleep increment.
OverrunWakeup_Tick(t) == t + SLEEP_TICK_S

\* Line 49: wakeup_time = time.monotonic() + SLEEP_TIME_MINIMUM
OverrunWakeup(t) == t + SLEEP_TIME_MINIMUM

\* A handler that flips the flag on every signal.
FlagAfterSignal_Toggled(f) == ~f

\* Line 22: EXIT_EVENT.set()
FlagAfterSignal(f) == TRUE

\* A loop that never looks at the flag.
LoopCondition_Ignored == TRUE

\* while not EXIT_EVENT.is_set():
LoopCondition == ~EXIT_EVENT

\* The whole remaining time slept at once.
SleepDuration_Whole(w, t) == Max(w - t, 0)

\* max(min(SLEEP_TICK_S, wakeup_time - time.monotonic()), 0)
SleepDuration(w, t) == Max(Min(SLEEP_TICK_S, w - t), 0)

NotCancelled == [set |-> FALSE, pc |-> "none", time |-> 0, calls |-> 0]

Init ==
    /\ now = 0
    /\ kind \in {"monitor", "send", "receive"}
    /\ period_s \in (IF kind = "monitor" THEN Periods ELSE {PERIOD_S_DEFAULT})
    /\ frequency \in (IF kind = "send" THEN Frequencies ELSE {0 - 1})
    /\ pc = "check"
    /\ wakeup_time = 0
    /\ until = 0
    /\ EXIT_EVENT \in BOOLEAN
    /\ n_calls = 0
    /\ raised = "none"
    /\ last_sleep = -1
    /\ cancel = IF EXIT_EVENT
                THEN [set |-> TRUE, pc |-> "before", time |-> 0, calls |-> 0]
                ELSE NotCancelled
    /\ tick = NoTick
    /\ CounterIdle
    /\ LinkIdle
    /\ OutputIdle

schedRest ==
    <<kind, period_s, frequency, counterVars, linkVars, outputVars>>

\* Lines 43-44: the loop test, and on entry the deadline of this tick.
LoopTest ==
    /\ pc = "check"
    /\ IF LoopCondition
       THEN pc' = "call" /\ wakeup_time' = Deadline(now, period_s)
       ELSE pc' = "done" /\ UNCHANGED wakeup_time
    /\ UNCHANGED <<now, until, EXIT_EVENT, n_calls, raised, last_sleep,
                   cancel, tick, schedRest>>

\* Line 46: the call of func begins.
CallFunc ==
    /\ pc = "call"
    /\ n_calls < MaxCalls \/ EXIT_EVENT
    /\ n_calls' = n_calls + 1
    /\ IF CallError(kind) # "none"
       THEN /\ pc' = IF Propagates(CallError(kind)) THEN "raised"
                     ELSE "adjust"
            /\ raised' = IF Propagates(CallError(kind)) THEN CallError(kind)
                         ELSE raised
            /\ tick' = [tick EXCEPT !.n = n_calls + 1, !.start = now,
                                    !.end = now, !.read = <<>>,
                                    !.ret = "none", !.err = CallError(kind),
                                    !.overrun = FALSE, !.sleeps = 0]
            /\ UNCHANGED until
       ELSE /\ \E d \in WorkDurations :
                   /\ now + d <= MaxTime \/ EXIT_EVENT
                   /\ until' = now + d
                   /\ tick' = [tick EXCEPT
                                 !.start = now, !.overrun = FALSE,
                                 !.sleeps = 0,
                                 !.within = tick.within /\ d < period_s,
                                 !.quick = tick.quick /\ d = 0]
            /\ pc' = "work"
            /\ UNCHANGED raised
    /\ UNCHANGED <<now, wakeup_time, EXIT_EVENT, last_sleep, cancel,
                   schedRest>>

\* Line 46: the call of func ends; an exception leaves _run_periodic.
FuncReturn ==
    /\ pc = "work"
    /\ now = until
    /\ \E o \in WorkOutcomes(kind) :
           /\ IF Propagates(o.err)
              THEN pc' = "raised" /\ raised' = o.err
              ELSE pc' = "adjust" /\ UNCHANGED raised
           /\ tick' = [tick EXCEPT !.n = n_calls, !.end = now,
                                   !.read = o.read, !.ret = o.ret,
                                   !.err = o.err]
    /\ UNCHANGED <<now, wakeup_time, until, EXIT_EVENT, n_calls, last_sleep,
                   cancel, schedRest>>

\* Lines 48-49: an overrun tick is given the minimum sleep.
Adjust ==
    /\ pc = "adjust"
    /\ wakeup_time' = IF wakeup_time <= now THEN OverrunWakeup(now)
                      ELSE wakeup_time
    /\ tick' = [tick EXCEPT !.overrun = (wakeup_time <= now)]
    /\ pc' = "inner"
    /\ UNCHANGED <<now, until, EXIT_EVENT, n_calls, raised, last_sleep,
                   cancel, schedRest>>

\* Lines 50-52: the test of the sleep loop and the start of one time.sleep.
InnerTest ==
    /\ pc = "inner"
    /\ IF ~EXIT_EVENT /\ wakeup_time > now
       THEN /\ last_sleep' = SleepDuration(wakeup_time, now)
            /\ until' = now + SleepDuration(wakeup_time, now)
            /\ tick' = [tick EXCEPT !.sleeps = tick.sleeps + 1]
            /\ pc' = "sleep"
       ELSE /\ pc' = "check"
            /\ UNCHANGED <<last_sleep, until, tick>>
    /\ UNCHANGED <<now, wakeup_time, EXIT_EVENT, n_calls, raised, cancel,
                   schedRest>>

\* A sleep that never returns.
SleepReturn_Blocks ==
    /\ pc = "sleep"
    /\ now >= until
    /\ UNCHANGED vars

\* time.sleep returns once its duration has passed (a signal handled during
\* the sleep does not cut it short).
SleepReturn ==
    /\ pc = "sleep"
    /\ now >= until
    /\ pc' = "inner"
    /\ UNCHANGED <<now, wakeup_time, until, EXIT_EVENT, n_calls, raised,
                   last_sleep, cancel, tick, schedRest>>

\* 10 ms pass while func runs or time.sleep sleeps.
Tick ==
    /\ pc \in {"work", "sleep"}
    /\ now < until
    /\ now < MaxTime \/ EXIT_EVENT
    /\ now' = now + 1
    /\ UNCHANGED <<pc, wakeup_time, until, EXIT_EVENT, n_calls, raised,
                   last_sleep, cancel, tick, schedRest>>

\* _quit_handler: a signal arrives while the loop runs.
QuitHandler ==
    /\ pc \notin {"done", "raised"}
    /\ EXIT_EVENT' = FlagAfterSignal(EXIT_EVENT)
    /\ cancel' = IF cancel.set THEN cancel
                 ELSE [set |-> TRUE, pc |-> pc, time |-> now,
                       calls |-> n_calls]
    /\ UNCHANGED <<now, pc, wakeup_time, until, n_calls, raised, last_sleep,
                   tick, schedRest>>

Next ==
    \/ LoopTest
    \/ CallFunc
    \/ FuncReturn
    \/ Adjust
    \/ InnerTest
    \/ SleepReturn
    \/ Tick
    \/ QuitHandler

Spec == Init /\ [][Next]_vars

\* One step of the loop itself, or of the clock while func runs or
\* time.sleep sleeps: everything but the arrival of a signal.
LoopStep ==
    \/ LoopTest
    \/ CallFunc
    \/ FuncReturn
    \/ Adjust
    \/ InnerTest
    \/ SleepReturn
    \/ Tick

\* The interpreter goes on to the next statement of the loop, a func that
\* was called returns or raises, and time passes during a sleep.  Nothing
\* is assumed about signals: one may never arrive.
SpecFair == Spec /\ WF_vars(LoopStep)

(***************************************************************************)
(* The same loop on a machine whose sleeps may end late: time.sleep        *)
(* suspends for at least the time asked for, and "may be longer than       *)
(* requested by an arbitrary amount, because of the scheduling of other    *)
(* activity in the system" (Python library reference, time.sleep).         *)
(***************************************************************************)
MaxLate == 26

\* By how much a sleep may end late, in units of 10 ms.
Lateness == {1, MaxLate}

\* time.sleep returns later than asked.
SleepLate ==
    /\ pc = "sleep"
    /\ now = until
    /\ \E l \in Lateness :
           /\ now + l <= MaxTime
           /\ now' = now + l
    /\ pc' = "inner"
    /\ UNCHANGED <<wakeup_time, until, EXIT_EVENT, n_calls, raised,
                   last_sleep, cancel, tick, schedRest>>

NextLate ==
    \/ LoopTest
    \/ CallFunc
    \/ FuncReturn
    \/ Adjust
    \/ InnerTest
    \/ SleepReturn
    \/ SleepLate
    \/ Tick
    \/ QuitHandler

SpecLate == Init /\ [][NextLate]_vars

(***************************************************************************)
(* devices.counter.CountDevice.  The _count callback runs on the GPIO      *)
(* callback thread, one event at a time; the readers and the resets run on *)
(* the tick thread, with no lock between the two threads.  hist counts the *)
(* increments and the appends that have taken effect.                      *)
(***************************************************************************)
CONVERSION_FACTOR == 1
PRECISION_DEFAULT == 2
\* 0.2 mm per tip
MM_PER_TIP == [num |-> 1, den |-> 5]

\* The conversion factors the devices are built with: CountDevice's default
\* and TippingBucketRainGauge's.
ConversionFactors == {[num |-> CONVERSION_FACTOR, den |-> 1], MM_PER_TIP}

MaxEvents == 2
MaxNow == 2

\* Windows a reader passes as period_s, in units of 10 ms, and None.
Windows == {0 - 1, 0, 1, 2}
NoPeriod == [given |-> FALSE, s |-> 0]
ReadPeriods == {NoPeriod} \cup {[given |-> TRUE, s |-> w] : w \in Windows}
\* Totals assigned to output_value_total, in halves: 0.5 and 1.5.
AssignedTotals == {1, 3}

\* Python's round(n / d) for integers n and d > 0: half to even.
RoundHalfEven(n, d) ==
    LET q == n \div d
        r == n % d
    IN  IF 2 * r > d \/ (2 * r = d /\ q % 2 = 1) THEN q + 1 ELSE q

\* 10 ** n
RECURSIVE Pow10(_)
Pow10(n) == IF n <= 0 THEN 1 ELSE 10 * Pow10(n - 1)

InitCounter ==
    /\ now = 0
    /\ SchedIdle
    /\ conversion_factor \in ConversionFactors
    /\ CounterNew
    /\ LinkIdle
    /\ OutputIdle

counterRest == <<schedVars, linkVars, outputVars, conversion_factor>>

\* An increment that counts an event twice.
Incremented_Twice(c) == c + 2

\* self.count += 1, the value stored
Incremented(c) == c + 1

\* _count, line 50: self.count is loaded ...
CountLoad ==
    /\ cb.pc = "idle"
    /\ hist.inc < MaxEvents
    /\ cb' = [pc |-> "loaded", tmp |-> count]
    /\ UNCHANGED <<now, count, count_times, start_time, observed, hist,
                   counterRest>>

\* ... and the incremented value stored.
CountStore ==
    /\ cb.pc = "loaded"
    /\ count' = Incremented(cb.tmp)
    /\ cb' = [pc |-> "stored", tmp |-> 0]
    /\ hist' = [hist EXCEPT !.inc = @ + 1]
    /\ UNCHANGED <<now, count_times, start_time, observed, counterRest>>

\* _count, line 51: self.count_times.append(time.monotonic())
CountAppend ==
    /\ cb.pc = "stored"
    /\ count_times' = Append(count_times, now)
    /\ cb' = CallbackIdle
    /\ hist' = [hist EXCEPT !.app = @ + 1]
    /\ UNCHANGED <<now, count, start_time, observed, counterRest>>

\* A window that takes in the event on its edge.
EventsSince_Inclusive(times, t, period) ==
    Cardinality({i \in 1..Len(times) : times[i] >= t - period})

\* sum([1 for t in self.count_times if t > (time.monotonic() - period_s)])
EventsSince(times, t, period) ==
    Cardinality({i \in 1..Len(times) : times[i] > t - period})

\* round(self.count * self.conversion_factor, PRECISION_DEFAULT), in units
\* of 10 ** -PRECISION_DEFAULT.
TotalOf(c, cf) == RoundHalfEven(Pow10(PRECISION_DEFAULT) * c * cf.num, cf.den)

\* A second assignment that takes effect only where the first did not.
Rebound_UnlessBound(old, new) == IF old.bound THEN old.v ELSE new

\* Lines 81-82: output_value_period is assigned again, whatever it held.
Rebound(old, new) == new

\* The value output_value_average returns, in units of
\* 10 ** -PRECISION_DEFAULT per second, or the exception it raises; total
\* is what self.output_value_total returns to line 80.
AverageOf(total, times, start, t, p) ==
    LET delta_t == t - start
        period == IF p.given THEN p.s ELSE delta_t
        from_total == IF p.given THEN [bound |-> FALSE, v |-> 0]
                      ELSE [bound |-> TRUE, v |-> total]
        output_value_period ==
            Rebound(from_total, EventsSince(times, t, period))
        den == Min(period, delta_t)
    IN  IF period <= 0
        THEN [value |-> 0, err |-> "none"]
        ELSE IF den = 0
        THEN [value |-> 0, err |-> "ZeroDivisionError"]
        ELSE [value |-> RoundHalfEven(
                  Pow10(PRECISION_DEFAULT) * 100 * output_value_period, den),
              err |-> "none"]

\* output_value_total (getter)
OutputValueTotal ==
    /\ observed' = [by |-> "total",
                    value |-> TotalOf(count, conversion_factor),
                    err |-> "none",
                    inc |-> hist.inc, app |-> hist.app]
    /\ UNCHANGED <<now, count, count_times, start_time, cb, hist,
                   counterRest>>

\* output_value_average(period_s)
OutputValueAverage(p) ==
    /\ LET r == AverageOf(TotalOf(count, conversion_factor), count_times,
                          start_time, now, p)
       IN  observed' = [by |-> "average", value |-> r.value, err |-> r.err,
                        inc |-> hist.inc, app |-> hist.app]
    /\ UNCHANGED <<now, count, count_times, start_time, cb, hist,
                   counterRest>>

\* output_value_total = v2 / 2 (setter): round(v / conversion_factor)
SetOutputValueTotal(v2) ==
    /\ count' = RoundHalfEven(v2 * conversion_factor.den,
                              2 * conversion_factor.num)
    /\ hist' = [hist EXCEPT !.assigned = TRUE]
    /\ UNCHANGED <<now, count_times, start_time, cb, observed, counterRest>>

\* A reset_count that restarts the clock as well.
ResetCount_AlsoTime ==
    /\ count' = 0
    /\ start_time' = now
    /\ hist' = [hist EXCEPT !.reset_count = TRUE]
    /\ UNCHANGED <<now, count_times, cb, observed, counterRest>>

ResetCount ==
    /\ count' = 0
    /\ hist' = [hist EXCEPT !.reset_count = TRUE]
    /\ UNCHANGED <<now, count_times, start_time, cb, observed, counterRest>>

ResetTime ==
    /\ start_time' = now
    /\ hist' = [hist EXCEPT !.reset_time = TRUE]
    /\ UNCHANGED <<now, count, count_times, cb, observed, counterRest>>

\* reset: reset_count() then reset_time()
Reset ==
    /\ count' = 0
    /\ start_time' = now
    /\ hist' = [hist EXCEPT !.reset_count = TRUE, !.reset_time = TRUE]
    /\ UNCHANGED <<now, count_times, cb, observed, counterRest>>

\* Time passes.
Advance ==
    /\ now < MaxNow
    /\ now' = now + 1
    /\ UNCHANGED <<counterVars, counterRest>>

NextCounter ==
    \/ CountLoad
    \/ CountStore
    \/ CountAppend
    \/ OutputValueTotal
    \/ \E p \in ReadPeriods : OutputValueAverage(p)
    \/ \E v2 \in AssignedTotals : SetOutputValueTotal(v2)
    \/ ResetCount
    \/ ResetTime
    \/ Reset
    \/ Advance

SpecCounter == InitCounter /\ [][NextCounter]_vars

(***************************************************************************)
(* output.write_line_csv on a destination opened the way monitor.py and    *)
(* link.py open it: open(path, "a", newline=""), so that the position      *)
(* out_file.tell() reports is the size of the file.  A line is the tuple   *)
(* of its cells, as text; data is a dict, the sequence of its              *)
(* <<key, value>> items.                                                   *)
(***************************************************************************)
MaxRows == 3

\* What the destination may hold when it is opened: nothing, one line, or
\* the header and a row of an earlier run.
InitialFiles ==
    { <<>>,
      << <<"old">> >>,
      << <<"time_elapsed_s", "rain_mm">>, <<"0.5", "0.0">> >> }

\* The dicts passed as data.
DataDicts ==
    { << <<"time_elapsed_s", "1.0">>, <<"rain_mm", "0.2">> >>,
      << <<"time_elapsed_s", "2.0">>, <<"rain_mm", "0.4">> >>,
      << <<"time_elapsed_s", "3.0">> >> }

\* data.keys(), and the values writerow writes for them
Keys(data) == [i \in 1..Len(data) |-> data[i][1]]
Values(data) == [i \in 1..Len(data) |-> data[i][2]]

\* A test that takes every destination for a new one.
AtStart_Always(f) == TRUE

\* not out_file.tell()
AtStart(f) == Len(f) = 0

InitOutput ==
    /\ now = 0
    /\ SchedIdle
    /\ CounterIdle
    /\ LinkIdle
    /\ csv_file \in InitialFiles
    /\ csv_calls = [initial |-> csv_file, data |-> <<>>]

\* write_line_csv(data, out_file)
WriteLineCsv(data) ==
    /\ Len(csv_calls.data) < MaxRows
    /\ csv_file' = (IF AtStart(csv_file) THEN Append(csv_file, Keys(data))
                    ELSE csv_file) \o <<Values(data)>>
    /\ csv_calls' = [csv_calls EXCEPT !.data = Append(@, data)]
    /\ UNCHANGED <<now, schedVars, counterVars, linkVars>>

NextOutput == \E data \in DataDicts : WriteLineCsv(data)

SpecOutput == InitOutput /\ [][NextOutput]_vars

(***************************************************************************)
(* Claims about the packet codec and the serial link (SpecLink).           *)
(***************************************************************************)
\* The tuple struct.unpack returns for the frame struct.pack makes of r.
Decoded(r) == StructUnpack(StructPack(r).bytes).data

\* A called recieve_data_packet has returned or raised.
Recieved == rx_result.ret # "none" \/ rx_result.raised # "none"

\* v is a finite value of IEEE-754 binary32.
Float32Exact(v) ==
    /\ v.k = "fin"
    /\ \/ v.m = 0
       \/ /\ BitLen(v.m) <= 24
          /\ v.e >= 0 - 149
          /\ v.e + BitLen(v.m) - 1 <= 127

\* Every float field of r is a binary32 value, the integer field a uint32.
RecordValid32(r) ==
    \A i \in 1..Len(r) :
        IF DATA_FORMAT[i] = "I" THEN r[i].hi >= 0 /\ r[i].hi <= 65535
        ELSE Float32Exact(r[i])

\* Python's == on two tuples of fields.
RecordEq(a, b) ==
    /\ Len(a) = Len(b)
    /\ \A i \in 1..Len(a) :
           IF DATA_FORMAT[i] = "I" THEN a[i] = b[i] ELSE PyFloatEq(a[i], b[i])

\* C1 (as claimed): every tuple recieve_data_packet decodes is the decoding
\* of exactly one frame the sender wrote; bytes of a partially read frame are
\* never combined with bytes of a neighbouring frame.
C1_DecodedIsOneFrame ==
    rx_result.unpacked # <<>> =>
        \E i \in 1..Len(sent) : rx_result.unpacked = Decoded(sent[i])

\* C7 (as claimed): decoding the frame made of any packable record r yields
\* r again, field by field.
C7_RoundTripAnyRecord ==
    \A i \in 1..Len(sent) :
        rx_result.read = StructPack(sent[i]).bytes =>
            RecordEq(rx_result.unpacked, sent[i])

\* C7 (amended): decoding the frame made of r yields r again when every float
\* field of r is a finite binary32 value and the integer field a uint32; for
\* every packable r, packing the decoded tuple gives the frame back bit for
\* bit.
C7_RoundTripBinary32 ==
    \A i \in 1..Len(sent) :
        rx_result.read = StructPack(sent[i]).bytes =>
            /\ RecordValid32(sent[i]) => RecordEq(rx_result.unpacked, sent[i])
            /\ StructPack(rx_result.unpacked).bytes = rx_result.read

C7_Witness ==
    /\ Len(sent) >= 1
    /\ sent[1] = RecC
    /\ RecordValid32(RecC)
    /\ rx_result.read = StructPack(RecC).bytes
    /\ rx_result.unpacked # <<>>

\* C8: a read whose length differs from the schema's size (an empty or a
\* short read) yields None: nothing is decoded, no record is built, nothing
\* is raised and nothing is written to the output file.
C8_SizeMismatchYieldsNothing ==
    (Recieved /\ Len(rx_result.read) # CalcSize) =>
        /\ rx_result.ret = "None"
        /\ rx_result.raised = "none"
        /\ rx_result.unpacked = <<>>
        /\ rx_result.names = <<>>
        /\ rx_result.rows = <<>>

C8_Witness ==
    /\ Recieved
    /\ Len(rx_result.read) > 0
    /\ Len(rx_result.read) < CalcSize
    /\ rx # <<>>
    /\ out_file = <<>>

\* C9 (as claimed): on a successful decode the receiver returns a record
\* whose names, position by position, denote the quantities the sender packed.
C9_NamesFollowPackOrder ==
    (Recieved /\ Len(rx_result.read) = CalcSize) =>
        /\ rx_result.ret = "dict"
        /\ rx_result.names = DataToPack

(***************************************************************************)
(* Claims about run_periodic (Spec).                                       *)
(***************************************************************************)
\* The positions of the sleep phase of a tick (lines 48-52).
SleepPhase == {"adjust", "inner", "sleep"}

\* C2 (as claimed): wherever in the loop the flag is set, no call of the
\* work function begins after it has been set.
C2_NoCallBeginsAfterSet == cancel.set => n_calls = cancel.calls

\* C2 (amended): after the flag has been set no further iteration is entered;
\* the only call of the work function that can begin after it is the call of
\* an iteration whose loop test had already passed when the flag was set.
C2_OnlyTheEnteredCall ==
    cancel.set =>
        /\ n_calls >= cancel.calls
        /\ n_calls - cancel.calls <= (IF cancel.pc = "call" THEN 1 ELSE 0)
        /\ (pc = "call" => cancel.pc = "call" /\ n_calls = cancel.calls)

C2_Witness ==
    /\ pc = "done"
    /\ cancel.set
    /\ cancel.pc = "call"
    /\ n_calls = cancel.calls + 1

\* C3: if the flag is set during the sleep phase, no call of the work
\* function follows, and the loop leaves the sleep phase when the time.sleep
\* in progress ends, at most SLEEP_TICK_S after the flag was set.
C3_CancelInSleepPhase ==
    (cancel.set /\ cancel.pc \in SleepPhase) =>
        /\ n_calls = cancel.calls
        /\ pc \in SleepPhase \cup {"check", "done"}
        /\ now - cancel.time <= SLEEP_TICK_S
        /\ (pc = "sleep" => until - cancel.time <= SLEEP_TICK_S)

C3_Witness ==
    /\ pc = "done"
    /\ cancel.set
    /\ cancel.pc = "sleep"
    /\ now - cancel.time = SLEEP_TICK_S
    /\ n_calls >= 1

\* C10 (as claimed): a periodic loop stops only because the flag was set,
\* never because a tick ended in an error.
C10_LoopEndsOnlyByCancel ==
    pc \in {"done", "raised"} => (pc = "done" /\ EXIT_EVENT /\ raised = "none")

(***************************************************************************)
(* Claims about CountDevice (SpecCounter).                                 *)
(***************************************************************************)
\* C4 (as claimed): whatever a reader sees, the increment and the append of
\* each event have both taken effect or neither has.
C4_ReaderSeesNoTornUpdate == observed.inc = observed.app

\* C5 (as claimed): with no callback in progress, count equals the length
\* of count_times, whatever operations have been completed.
C5_CountIsLength == cb.pc = "idle" => count = Len(count_times)

\* C5 (amended): with no callback in progress, count equals the length of
\* count_times as long as neither reset_count, reset nor an assignment to
\* output_value_total has been performed (reset_time changes neither); those
\* three change count and leave count_times as it is, and after reset_count
\* or reset alone count is at most the length of count_times.
C5_CountIsLengthUntilReset ==
    cb.pc = "idle" =>
        /\ Len(count_times) = hist.app
        /\ (~hist.reset_count /\ ~hist.assigned) => count = Len(count_times)
        /\ ~hist.assigned => count <= Len(count_times)

C5_Witness ==
    /\ cb.pc = "idle"
    /\ hist.reset_time
    /\ ~hist.reset_count
    /\ ~hist.assigned
    /\ count = 2
    /\ Len(count_times) = 2

\* C6 (as claimed): every timestamp of count_times is at or after start_time.
C6_TimesNotBeforeStart ==
    \A i \in 1..Len(count_times) : count_times[i] >= start_time

(***************************************************************************)
(* Failures of the work function.                                          *)
(***************************************************************************)
\* C11: an invocation of func that raises ends the loop at once: the same
\* exception leaves _run_periodic, and neither another invocation nor a
\* sleep follows the failed one.
C11_FailureLeavesTheLoop ==
    tick.err # "none" =>
        /\ pc = "raised"
        /\ raised = tick.err
        /\ n_calls = tick.n
        /\ tick.sleeps = 0

\* A later invocation, reached through the sleeps of an earlier tick, fails.
C11_Witness ==
    /\ pc = "raised"
    /\ tick.err = "AttributeError"
    /\ n_calls >= 2
    /\ last_sleep >= 0

\* C12: in the receive loop a tick that read nothing, or read bytes that do
\* not unpack, returns no record and raises nothing; the loop goes on, and
\* ends after such a tick only when the flag is set.
C12_FruitlessTickGoesOn ==
    (kind = "receive" /\ tick.n >= 1 /\ Len(tick.read) # CalcSize) =>
        /\ tick.ret = "None"
        /\ tick.err = "none"
        /\ raised = "none"
        /\ pc \in {"adjust", "inner", "sleep", "check", "call", "work",
                   "done"}
        /\ (pc = "done" => EXIT_EVENT)

\* The invocation after a tick that read an undecodable fragment is running.
C12_Witness ==
    /\ kind = "receive"
    /\ pc = "work"
    /\ tick.n = 1
    /\ n_calls = 2
    /\ Len(tick.read) \in 1..(CalcSize - 1)
    /\ ~EXIT_EVENT

(***************************************************************************)
(* Claims about the readings of CountDevice (SpecCounter).                 *)
(***************************************************************************)
\* C13 (as claimed): output_value_average never raises, whatever the window
\* and the elapsed time, and returns 0 whenever min(window, elapsed) <= 0.
C13_AverageNeverFails ==
    observed.by = "average" =>
        /\ observed.err = "none"
        /\ \A p \in ReadPeriods :
               LET elapsed == now - start_time
                   W == IF p.given THEN p.s ELSE elapsed
                   r == AverageOf(TotalOf(count, conversion_factor),
                                  count_times, start_time, now, p)
               IN  Min(W, elapsed) <= 0 => (r.err = "none" /\ r.value = 0)

\* |x|
Abs(x) == IF x < 0 THEN 0 - x ELSE x

\* v is n / d per 10 ms, told per second and rounded to PRECISION_DEFAULT
\* decimals: a multiple of 10 ** -PRECISION_DEFAULT nearest to the quotient.
IsRoundedRate(v, n, d) ==
    2 * Abs(v * d - Pow10(PRECISION_DEFAULT) * 100 * n) <= d

\* C14: with a window W > 0 and a positive elapsed time, the average is the
\* number of timestamps strictly later than now - W, divided by
\* min(W, elapsed); with no window given, it is the number of timestamps
\* later than start_time divided by the elapsed time.
C14_AverageCountsWindow ==
    \A p \in ReadPeriods :
        LET elapsed == now - start_time
            W == IF p.given THEN p.s ELSE elapsed
            inWindow == {i \in 1..Len(count_times) : count_times[i] > now - W}
            sinceStart ==
                {i \in 1..Len(count_times) : count_times[i] > start_time}
            r == AverageOf(TotalOf(count, conversion_factor), count_times,
                           start_time, now, p)
        IN  (W > 0 /\ elapsed > 0) =>
                /\ r.err = "none"
                /\ IsRoundedRate(r.value, Cardinality(inWindow),
                                 Min(W, elapsed))
                /\ ~p.given =>
                       IsRoundedRate(r.value, Cardinality(sinceStart),
                                     elapsed)

\* A reader asked for the last 20 ms, 20 ms after the start, with one event
\* on the edge of the window and one inside it: 1 event in 0.02 s, 50 per s.
C14_Witness ==
    /\ now - start_time = 2
    /\ count_times = <<now - 2, now>>
    /\ observed.by = "average"
    /\ observed.err = "none"
    /\ observed.value = Pow10(PRECISION_DEFAULT) * 50

\* C15: with no callback in progress, and with no reset_count, reset or
\* assignment so far, the total a reader gets is the number N of callbacks
\* that have run times the conversion factor, rounded to PRECISION_DEFAULT
\* decimals (the device has no offset).
C15_TotalIsScaledCount ==
    (cb.pc = "idle" /\ ~hist.reset_count /\ ~hist.assigned) =>
        /\ hist.inc = hist.app
        /\ 2 * Abs(TotalOf(count, conversion_factor) * conversion_factor.den
                   - Pow10(PRECISION_DEFAULT) * hist.app
                         * conversion_factor.num)
               <= conversion_factor.den
        /\ (observed.by = "total" /\ observed.app = hist.app) =>
               observed.value = TotalOf(count, conversion_factor)

\* Two tips of the rain gauge read as 0.4 mm.
C15_Witness ==
    /\ conversion_factor = MM_PER_TIP
    /\ cb.pc = "idle"
    /\ ~hist.reset_count /\ ~hist.assigned
    /\ hist.app = 2
    /\ observed.by = "total"
    /\ observed.value = 40

\* C16: reset_count sets count to 0 and leaves start_time as it is;
\* reset_time sets start_time to the present time and leaves count as it is;
\* reset does both.  None of them touches count_times.
C16_ResetsChangeOnlyTheirField ==
    [][/\ ResetCount => (count' = 0 /\ start_time' = start_time)
       /\ ResetTime => (start_time' = now /\ count' = count)
       /\ Reset => (count' = 0 /\ start_time' = now)
       /\ (ResetCount \/ ResetTime \/ Reset) =>
              count_times' = count_times]_vars

\* After reset_count alone: the count is 0, the events and the start remain.
C16_Witness ==
    /\ hist.reset_count
    /\ ~hist.reset_time
    /\ ~hist.assigned
    /\ count = 0
    /\ Len(count_times) = 2
    /\ start_time = 0
    /\ now = 2
    /\ cb.pc = "idle"

(***************************************************************************)
(* Claims about the sleeps of run_periodic and about its flag (Spec).      *)
(***************************************************************************)
\* C17 (as claimed): a tick whose work call ended at or after its deadline
\* is followed by no sleep at all.
C17_OverrunSkipsSleep == tick.overrun => tick.sleeps = 0

\* C17 (amended): a tick whose work call ended at or after its deadline is
\* followed by at most one sleep, of SLEEP_TIME_MINIMUM, and the next
\* invocation begins exactly SLEEP_TIME_MINIMUM after the work call ended.
C17_OverrunSleepsMinimum ==
    tick.overrun =>
        /\ tick.sleeps <= 1
        /\ tick.sleeps = 1 =>
               /\ last_sleep = SLEEP_TIME_MINIMUM
               /\ until = tick.end + SLEEP_TIME_MINIMUM
        /\ pc = "call" =>
               /\ tick.sleeps = 1
               /\ now = tick.end + SLEEP_TIME_MINIMUM

\* The work call of a 0.7 s tick took 1.2 s, and the next invocation is due.
C17_Witness ==
    /\ period_s = 70
    /\ tick.overrun
    /\ tick.end - tick.start = 120
    /\ pc = "call"
    /\ n_calls = 1

\* C18: whatever the period and the duration of the work call, every
\* argument of time.sleep is at least 0 and at most SLEEP_TICK_S.
C18_SleepArgumentInRange ==
    last_sleep # 0 - 1 => (0 <= last_sleep /\ last_sleep <= SLEEP_TICK_S)

\* A sleep in progress in the second tick of a loop with a negative period.
C18_Witness ==
    /\ period_s < 0
    /\ pc = "sleep"
    /\ n_calls = 2
    /\ last_sleep >= 0

\* C19: no step takes the flag from set to clear.
C19_FlagStaysSet == [][EXIT_EVENT => EXIT_EVENT']_vars

\* The loop has ended some time after the flag was first set, and the flag
\* is still set.
C19_Witness ==
    /\ EXIT_EVENT
    /\ cancel.set
    /\ cancel.pc = "work"
    /\ pc = "done"
    /\ now > cancel.time

(***************************************************************************)
(* The cadence of run_periodic when sleeps may end late (SpecLate).  The   *)
(* loop starts at time 0; at pc = "work" invocation number n_calls - 1     *)
(* (counting from 0) has just begun, at tick.start.                        *)
(***************************************************************************)
\* C20 (as claimed): with a period P > 0 and work calls that take no time,
\* tick K starts within SLEEP_TICK_S of K * P, for every K.
C20_TickStartsOnSchedule ==
    (period_s > 0 /\ tick.quick /\ pc = "work") =>
        /\ tick.start >= (n_calls - 1) * period_s - SLEEP_TICK_S
        /\ tick.start <= (n_calls - 1) * period_s + SLEEP_TICK_S

\* C20 (amended): with a period P > 0 and work calls shorter than P, tick K
\* starts no earlier than K * P, and late by no more than K times the
\* greatest lateness of a sleep: each tick's deadline is its own start plus
\* P, so the work call adds nothing, and the lateness of the last sleep of
\* each tick is handed on to every later tick.
C20_TickStartsLateBySleeps ==
    (period_s > 0 /\ tick.within /\ pc = "work") =>
        /\ tick.start >= (n_calls - 1) * period_s
        /\ tick.start <= (n_calls - 1) * (period_s + MaxLate)

\* Tick 2 of a 0.7 s loop with work calls that take no time starts at
\* 2 * (0.7 + 0.26) s, later than SLEEP_TICK_S after its time.
C20_Witness ==
    /\ period_s = 70
    /\ tick.quick
    /\ pc = "work"
    /\ n_calls = 3
    /\ tick.start = 2 * (70 + MaxLate)
    /\ tick.start > 2 * 70 + SLEEP_TICK_S

(***************************************************************************)
(* The layout of the frames on the serial link (SpecLink).                 *)
(***************************************************************************)
\* C21 (as claimed): every frame the sender writes holds 9 fields in 36
\* bytes, followed by one delimiter byte 0x0A, and what the receiver reads
\* for one decoding ends with that delimiter.
C21_FrameIsNineFieldsAndDelimiter ==
    /\ \A i \in 1..Len(sent) :
           LET frame == StructPack(sent[i]).bytes
           IN  /\ Len(sent[i]) = 9
               /\ Len(frame) = 36 + 1
               /\ frame[Len(frame)] = 10
    /\ (Recieved /\ rx_result.read # <<>>) =>
           rx_result.read[Len(rx_result.read)] = 10

(***************************************************************************)
(* Termination of run_periodic (SpecFair).  MaxCalls and MaxTime bound the *)
(* loop only while the flag is clear.                                      *)
(***************************************************************************)
\* C22: once the flag is set, _run_periodic ends (it returns, or an
\* exception of func leaves it): every call of func and every sleep
\* increment in progress ends, and the flag is tested after each of them.
C22_CancelledLoopEnds == EXIT_EVENT ~> (pc \in {"done", "raised"})

\* The loop has returned after the flag was set during a sleep increment of
\* its second tick.
C22_Witness ==
    /\ pc = "done"
    /\ raised = "none"
    /\ cancel.set
    /\ cancel.pc = "sleep"
    /\ cancel.calls = 2
    /\ now > cancel.time

(***************************************************************************)
(* The cadence of the loops started with a frequency (Spec).               *)
(***************************************************************************)
\* The period, in units of 10 ms, that the frequency f (in Hz) stands for.
PeriodOf(f) == IF f = 0 THEN SLEEP_TIME_MINIMUM ELSE 100 \div f

\* C23 (as claimed): the loop of send_monitoring_data(frequency=f) runs with
\* the period 1 / f, or SLEEP_TIME_MINIMUM when f = 0, and its work function
\* is invoked in every tick that has begun.
C23_PeriodIsInverseFrequency ==
    (kind = "send" /\ n_calls >= 1) =>
        /\ period_s = PeriodOf(frequency)
        /\ wakeup_time = tick.start + PeriodOf(frequency)
        /\ raised # "TypeError"

(***************************************************************************)
(* The CSV destination (SpecOutput).                                       *)
(***************************************************************************)
\* The lines the calls so far have added to the destination.
CsvAdded ==
    SubSeq(csv_file, Len(csv_calls.initial) + 1, Len(csv_file))

\* C24: a destination that was empty when opened holds, after n >= 1 calls,
\* the field names of the first call as its first line and then one row per
\* call, in order; a destination that held data holds its old lines and
\* then one row per call, and no header.
C24_HeaderOnceThenRows ==
    LET n == Len(csv_calls.data)
        header == IF csv_calls.initial = <<>> /\ n >= 1 THEN 1 ELSE 0
    IN  /\ SubSeq(csv_file, 1, Len(csv_calls.initial)) = csv_calls.initial
        /\ Len(CsvAdded) = header + n
        /\ header = 1 => CsvAdded[1] = Keys(csv_calls.data[1])
        /\ \A i \in 1..n : CsvAdded[header + i] = Values(csv_calls.data[i])

\* Three calls on a new destination: the header and three rows.
C24_Witness ==
    /\ csv_calls.initial = <<>>
    /\ Len(csv_calls.data) = 3
    /\ Len(csv_file) = 4
    /\ csv_file[1] = <<"time_elapsed_s", "rain_mm">>
    /\ csv_file[4] = <<"3.0">>

(***************************************************************************)
(* Calls of the wrapper with the flag set or clear (Spec).  cancel.pc is   *)
(* "before" when the flag was set before the call was made.                *)
(***************************************************************************)
\* C25 (as claimed): a call made with the flag set ends without an
\* invocation of func and without a sleep; a call made with the flag clear
\* has invoked func at least once when it ends.
C25_ClearAtCallMeansOneInvocation ==
    /\ cancel.pc = "before" => (n_calls = 0 /\ last_sleep = 0 - 1)
    /\ (pc \in {"done", "raised"} /\ cancel.pc # "before") => n_calls >= 1

\* C25 (amended): a call made with the flag set ends without an invocation
\* of func and without a sleep; a call made with the flag clear has invoked
\* func at least once when it ends, unless the flag was set before the loop
\* condition was tested for the first time: then it has invoked func never.
C25_ClearAtFirstTestMeansOneInvocation ==
    /\ cancel.pc = "before" =>
           /\ n_calls = 0
           /\ last_sleep = 0 - 1
           /\ pc \in {"check", "done"}
    /\ (pc \in {"done", "raised"} /\ cancel.pc # "before") =>
           IF cancel.set /\ cancel.pc = "check" /\ cancel.calls = 0
           THEN n_calls = 0 /\ last_sleep = 0 - 1
           ELSE n_calls >= 1

\* A call made with the flag clear has ended without an invocation: the
\* signal came before the first test of the loop condition.
C25_Witness ==
    /\ pc = "done"
    /\ cancel.set
    /\ cancel.pc = "check"
    /\ cancel.calls = 0
    /\ n_calls = 0

(***************************************************************************)
(* The average and the count (SpecCounter).                                *)
(***************************************************************************)
\* Values of count a device could hold in place of its own.
OtherCounts == {0, MaxEvents + 1, 8}

\* The average the device returns now for the window p.
AverageNow(p) ==
    AverageOf(TotalOf(count, conversion_factor), count_times, start_time,
              now, p)

\* The number of events the average for the window p is made of.
EventsCounted(times, start, t, p) ==
    EventsSince(times, t, IF p.given THEN p.s ELSE t - start)

\* A step after which the device differs from what it was in count alone:
\* a reset_count or an assignment to output_value_total that changes count.
CountOnlyWritten ==
    /\ count' # count
    /\ UNCHANGED <<now, count_times, start_time, cb, conversion_factor>>

\* C26 (as claimed): after reset_count, reset or an assignment to
\* output_value_total, the average, with or without a window, is made of
\* the same events as before the operation.
C26_ResetsKeepEventsCounted ==
    [][(CountOnlyWritten \/ Reset) =>
           \A p \in ReadPeriods :
               EventsCounted(count_times', start_time', now', p)
                   = EventsCounted(count_times, start_time, now, p)]_vars

\* C26 (amended): with or without a window, the device returns the average
\* that a device with the same count_times, the same start_time and the
\* same clock but any other count would return.  So reset_count and an
\* assignment to output_value_total leave every average as it was, and
\* after reset the average over a given window is made of the same events
\* as before; the average with no window, which reaches back to
\* start_time, is made of the events later than the reset only.
C26_AverageIgnoresCount ==
    /\ [](\A p \in ReadPeriods :
              LET average == AverageNow(p)
              IN  \A c \in OtherCounts :
                      AverageOf(TotalOf(c, conversion_factor), count_times,
                                start_time, now, p) = average)
    /\ [][CountOnlyWritten =>
              \A p \in ReadPeriods :
                  AverageOf(TotalOf(count', conversion_factor'),
                            count_times', start_time', now', p)
                      = AverageNow(p)]_vars
    /\ [][Reset =>
              \A p \in ReadPeriods :
                  EventsCounted(count_times', start_time', now', p)
                      = IF p.given
                        THEN EventsCounted(count_times, start_time, now, p)
                        ELSE 0]_vars

\* After reset_count the count is 0 and the average over the time since the
\* start, which a reader has just taken, is that of the two events recorded
\* before the reset.
C26_Witness ==
    /\ hist.reset_count
    /\ ~hist.reset_time
    /\ ~hist.assigned
    /\ cb.pc = "idle"
    /\ count = 0
    /\ count_times = <<1, 1>>
    /\ now = 2
    /\ observed.by = "average"
    /\ observed.app = 2
    /\ observed.value = AverageNow(NoPeriod).value
    /\ observed.value = Pow10(PRECISION_DEFAULT) * 100

(***************************************************************************)
(* The callback and reset_count on two threads (SpecCounter).              *)
(***************************************************************************)
\* C27: once reset_count has returned, count is the number of callbacks
\* whose increment took effect after it, however the callback's load and
\* store of count interleave with the reset; so each increment that takes
\* effect after the reset, with no assignment to output_value_total made,
\* leaves count one greater than it found it.
C27_IncrementAfterResetAddsOne ==
    [][(CountStore /\ hist.reset_count /\ ~hist.assigned) =>
           count' = count + 1]_vars

====
